---- MODULE Spec2Model ----
(***************************************************************************)
(* Model of src/xts.py: the XTS command-line front end.  One invocation of *)
(* XTS().run() is a sequential walk through _parse_first_arg followed by   *)
(* the hand-off to YamlRunner.run.  The environment of an invocation is    *)
(* the command line (sys.argv) and the file system (which paths exist,     *)
(* whether they are readable and what YAML they hold).                     *)
(***************************************************************************)
EXTENDS Integers, Sequences, FiniteSets, TLC

(***************************************************************************)
(* Bounds of the explored environments.                                    *)
(***************************************************************************)
\* longest command line after the program name
MaxArgs == 2
\* largest number of paths that exist on disk
MaxFiles == 2

(***************************************************************************)
(* Python values.  Every value carries its type, so that a str never       *)
(* equals a bool, an int or None, as in Python.                            *)
(***************************************************************************)
PyNone == [kind |-> "NoneType", val |-> "None"]

PyStr(s) == [kind |-> "str", val |-> s]

PyBool(s) == [kind |-> "bool", val |-> s]

PyInt(s) == [kind |-> "int", val |-> s]

PyDict(f) == [kind |-> "dict", val |-> f]

IsNone(v) == v.kind = "NoneType"

IsDict(v) == v.kind = "dict"

\* bool(v)
Truthy(v) ==
    CASE v.kind = "NoneType" -> FALSE
      [] v.kind = "str" -> v.val # ""
      [] v.kind = "bool" -> v.val = "True"
      [] v.kind = "int" -> v.val # "0"
      [] v.kind = "dict" -> DOMAIN v.val # {}

\* dict.get(k): the value under k, None when k is absent
DictGet(d, k) == IF k \in DOMAIN d.val THEN d.val[k] ELSE PyNone

(***************************************************************************)
(* YAML documents as node trees, and yaml.load(stream, SafeLoader).        *)
(* A plain scalar is resolved by the YAML 1.1 implicit resolver: the null  *)
(* words give None, the boolean words give bool, digits give int, anything *)
(* else stays a str.  A mapping node becomes a dict, a later duplicate key *)
(* replacing an earlier one.                                               *)
(***************************************************************************)
Scalar(t) == [node |-> "scalar", text |-> t, entries |-> <<>>]

Mapping(e) == [node |-> "mapping", text |-> "", entries |-> e]

NullWords == {"", "~", "null", "Null", "NULL"}

TrueWords == {"yes", "Yes", "YES", "true", "True", "TRUE", "on", "On", "ON"}

FalseWords == {"no", "No", "NO", "false", "False", "FALSE", "off", "Off", "OFF"}

IntWords == {"0", "1", "2", "3", "4", "5", "6", "7", "8", "9"}

ResolveScalar(t) ==
    CASE t \in NullWords -> PyNone
      [] t \in TrueWords -> PyBool("True")
      [] t \in FalseWords -> PyBool("False")
      [] t \in IntWords -> PyInt(t)
      [] OTHER -> PyStr(t)

RECURSIVE ConstructNode(_)
ConstructNode(n) ==
    IF n.node = "scalar"
    THEN ResolveScalar(n.text)
    ELSE LET e == n.entries
             keys == {ResolveScalar(e[i][1]) : i \in 1..Len(e)}
             last(k) == CHOOSE i \in 1..Len(e) :
                          /\ ResolveScalar(e[i][1]) = k
                          /\ \A j \in 1..Len(e) :
                                ResolveScalar(e[j][1]) = k => j <= i
         IN  PyDict([k \in keys |-> ConstructNode(e[last(k)][2])])

(***************************************************************************)
(* The file system.  A path is absent, present but unreadable, or present  *)
(* with one of the contents below.                                         *)
(***************************************************************************)
\* build: {command: make}          a Leaf
\* test: {unit: {command: pytest}} a Section
\* clean: {command: }              a Leaf whose command is null
\* lint:                           a null CommandSpec
MainYaml ==
    Mapping(<< <<"build", Mapping(<< <<"command", Scalar("make")>> >>)>>,
               <<"test", Mapping(<< <<"unit",
                           Mapping(<< <<"command", Scalar("pytest")>> >>)>> >>)>>,
               <<"clean", Mapping(<< <<"command", Scalar("")>> >>)>>,
               <<"lint", Scalar("")>> >>)

\* test: {command: pytest}         a Leaf
\* on: {command: poweron}          a key the resolver turns into True
AltYaml ==
    Mapping(<< <<"test", Mapping(<< <<"command", Scalar("pytest")>> >>)>>,
               <<"on", Mapping(<< <<"command", Scalar("poweron")>> >>)>> >>)

\* a document that is a single string
ScalarYaml == Scalar("hello")

\* an empty file
EmptyYaml == Scalar("")

CwdNames == {"a.xts", "b.xts", "cxts", "notes.txt"}

Paths == CwdNames \cup {"../e.xts"}

FileStates == {"absent", "unreadable", "invalid", "empty", "scalar", "main", "alt"}

\* what yaml.load reads from a readable, well-formed file
FileYaml(st) ==
    CASE st = "empty" -> EmptyYaml
      [] st = "scalar" -> ScalarYaml
      [] st = "main" -> MainYaml
      [] st = "alt" -> AltYaml

Tokens == {"a.xts", "../e.xts", "build", "test", "clean", "lint", "on",
           "--help", "-v"}

\* the characters of the strings the configuration regex is applied to
Chars(s) ==
    CASE s = "a.xts" -> <<"a", ".", "x", "t", "s">>
      [] s = "b.xts" -> <<"b", ".", "x", "t", "s">>
      [] s = "cxts" -> <<"c", "x", "t", "s">>
      [] s = "notes.txt" -> <<"n", "o", "t", "e", "s", ".", "t", "x", "t">>
      [] s = "../e.xts" -> <<".", ".", "/", "e", ".", "x", "t", "s">>
      [] s = "build" -> <<"b", "u", "i", "l", "d">>
      [] s = "test" -> <<"t", "e", "s", "t">>
      [] s = "clean" -> <<"c", "l", "e", "a", "n">>
      [] s = "lint" -> <<"l", "i", "n", "t">>
      [] s = "on" -> <<"o", "n">>
      [] s = "--help" -> <<"-", "-", "h", "e", "l", "p">>
      [] s = "-v" -> <<"-", "v">>
      [] s = "-h" -> <<"-", "h">>
      [] s = "xts" -> <<"x", "t", "s">>

\* re.search(r'.xts$', s): any character but a newline, then xts, then the
\* end of the string or a final newline
ReSearchXts(s) ==
    LET c == Chars(s)
        n == Len(c)
    IN  \E i \in 1..n :
          /\ i + 3 <= n
          /\ c[i] # "\n"
          /\ c[i + 1] = "x" /\ c[i + 2] = "t" /\ c[i + 3] = "s"
          /\ \/ i + 3 = n
             \/ i + 4 = n /\ c[n] = "\n"

(***************************************************************************)
(* The state of one invocation.                                            *)
(***************************************************************************)
VARIABLES
    cmdline,       \* the command line the process was started with
    sys_argv,      \* sys.argv, the program name first
    fs,            \* the state of every path
    pc,            \* the statement the invocation is at
    xts_config,    \* XTS._xts_config
    used_args,     \* YamlRunner._used_args
    searched,      \* whether os.listdir(os.getcwd()) has been evaluated
    loaded,        \* the paths yaml.load has read, in order
    parser,        \* the command argument of the parser and its choices
    parsed_args,   \* the namespace returned by parse_known_args
    remaining,     \* the list _parse_first_arg returns
    config,        \* YamlRunner.config, the narrowed configuration
    plugin_calls,  \* the arguments of every call of _run_plugins
    runner_calls,  \* the arguments of every call of YamlRunner.run
    stdout,        \* the invocation hints printed
    exit_code,     \* the exit status of the process, -1 while it runs
    message        \* the error message the process ended with

vars == <<cmdline, sys_argv, fs, pc, xts_config, used_args, searched, loaded, parser,
          parsed_args, remaining, config, plugin_calls, runner_calls, stdout,
          exit_code, message>>

Exists(f, p) == p \in Paths /\ f[p] # "absent"

\* the states explored for each path: every state for a.xts, which is both
\* named on the command line and found by the search, fewer for the others
PathStates(p) ==
    CASE p = "a.xts" -> FileStates
      [] p = "b.xts" -> {"absent", "empty", "alt"}
      [] p = "cxts" -> {"absent", "main"}
      [] p = "notes.txt" -> {"absent", "main"}
      [] p = "../e.xts" -> {"absent", "empty", "main", "alt"}

FsSet ==
    {f \in [Paths -> FileStates] :
        /\ Cardinality({p \in Paths : f[p] # "absent"}) <= MaxFiles
        /\ \A p \in Paths : f[p] \in PathStates(p)}

ArgSeqs == UNION {[1..n -> Tokens] : n \in 0..MaxArgs}

\* the orders in which os.listdir may return the names of a directory
Listings(S) ==
    {l \in [1..Cardinality(S) -> S] : \A i, j \in 1..Cardinality(S) : l[i] = l[j] => i = j}

Running == -1

(***************************************************************************)
(* Ways the process ends.                                                  *)
(***************************************************************************)
\* error() raising SystemExit(2)
Error_ExitTwo(msg) == [kind |-> "exit", status |-> 2, message |-> msg, value |-> PyNone]

\* error(error_message): print the message, raise SystemExit(1)
Error(msg) == [kind |-> "exit", status |-> 1, message |-> msg, value |-> PyNone]

\* an exception nothing catches: the interpreter prints the traceback and
\* exits with status 1
Uncaught(exc) == [kind |-> "exit", status |-> 1, message |-> exc, value |-> PyNone]

Ok(v) == [kind |-> "ok", status |-> Running, message |-> "", value |-> v]

\* the setter leaving the configuration unset, without an error, when the
\* path does not exist
XtsConfigSetter_SilentMissing(f, cfg) ==
    IF Exists(f, cfg) /\ ReSearchXts(cfg)
    THEN CASE f[cfg] = "unreadable" -> Error("Could not read xts config")
           [] f[cfg] = "invalid" -> Uncaught("yaml.YAMLError")
           [] OTHER -> Ok(ConstructNode(FileYaml(f[cfg])))
    ELSE Ok(PyNone)

\* the xts_config setter applied to the path config
XtsConfigSetter(f, cfg) ==
    IF Exists(f, cfg) /\ ReSearchXts(cfg)
    THEN CASE f[cfg] = "unreadable" -> Error("Could not read xts config")
           [] f[cfg] = "invalid" -> Uncaught("yaml.YAMLError")
           [] OTHER -> Ok(ConstructNode(FileYaml(f[cfg])))
    ELSE Error("xts config specified does not exist")

\* _user_select_config ending through the generic failure status
UserSelectConfig_ExitOne(choices) ==
    [lines |-> [i \in 1..Len(choices) |-> <<"xts", choices[i], "...">>],
     status |-> 1,
     message |-> "Multiple xts file found in the current directory"]

\* _user_select_config(choices): one hint per file name, then SystemExit(2)
UserSelectConfig(choices) ==
    [lines |-> [i \in 1..Len(choices) |-> <<"xts", choices[i], "...">>],
     status |-> 2,
     message |-> "Multiple xts file found in the current directory"]

(***************************************************************************)
(* parser.parse_known_args() for a parser with the flag --help/-h and the  *)
(* one positional COMMAND restricted to choices.                           *)
(***************************************************************************)
HelpFlags == {"--help", "-h"}

IsOption(s) == Chars(s)[1] = "-" /\ Len(Chars(s)) > 1

RECURSIVE ExtrasFrom(_, _, _)
ExtrasFrom(args, i, p) ==
    IF i > Len(args) THEN <<>>
    ELSE IF i = p \/ args[i] \in HelpFlags
         THEN ExtrasFrom(args, i + 1, p)
         ELSE <<args[i]>> \o ExtrasFrom(args, i + 1, p)

ParseKnownArgs(args, choices) ==
    LET pos == {i \in 1..Len(args) : ~IsOption(args[i])}
        p == CHOOSE i \in pos : \A j \in pos : i <= j
        none == [command |-> "", help |-> FALSE]
    IN  IF pos = {}
        THEN [status |-> 2, message |-> "the following arguments are required",
              args |-> none, extras |-> <<>>]
        ELSE IF PyStr(args[p]) \notin choices
             THEN [status |-> 2, message |-> "invalid choice",
                   args |-> [command |-> args[p], help |-> FALSE], extras |-> <<>>]
             ELSE [status |-> Running, message |-> "",
                   args |-> [command |-> args[p],
                             help |-> \E i \in 1..Len(args) : args[i] \in HelpFlags],
                   extras |-> ExtrasFrom(args, 1, p)]

(***************************************************************************)
(* Init: the state after XTS(), in any of the explored environments.       *)
(***************************************************************************)
Init ==
    /\ cmdline \in {<<"xts">> \o a : a \in ArgSeqs}
    /\ sys_argv = cmdline
    /\ fs \in FsSet
    /\ pc = "first_arg"
    /\ xts_config = PyNone
    /\ used_args = <<>>
    /\ searched = FALSE
    /\ loaded = <<>>
    /\ parser = [built |-> FALSE, choices |-> {}]
    /\ parsed_args = [command |-> "", help |-> FALSE]
    /\ remaining = <<>>
    /\ config = PyNone
    /\ plugin_calls = <<>>
    /\ runner_calls = <<>>
    /\ stdout = <<>>
    /\ exit_code = Running
    /\ message = ""

Terminate(status, msg) ==
    /\ pc' = "exited"
    /\ exit_code' = status
    /\ message' = msg

\* lines 108-113: an explicit configuration path as the first argument
ExplicitConfig ==
    /\ pc = "first_arg"
    /\ IF Len(sys_argv) > 1 /\ ReSearchXts(sys_argv[2])
       THEN LET r == XtsConfigSetter(fs, sys_argv[2])
            IN  IF r.kind = "exit"
                THEN /\ Terminate(r.status, r.message)
                     /\ UNCHANGED <<sys_argv, xts_config, used_args, loaded>>
                ELSE /\ xts_config' = r.value
                     /\ loaded' = Append(loaded, sys_argv[2])
                     /\ used_args' = Append(used_args, sys_argv[2])
                     /\ sys_argv' = <<sys_argv[1]>> \o SubSeq(sys_argv, 3, Len(sys_argv))
                     /\ pc' = "locate"
                     /\ UNCHANGED <<exit_code, message>>
       ELSE /\ pc' = "locate"
            /\ UNCHANGED <<sys_argv, xts_config, used_args, loaded, exit_code, message>>
    /\ UNCHANGED <<cmdline, fs, searched, parser, parsed_args, remaining, config,
                   plugin_calls, runner_calls, stdout>>

\* lines 143-161: _find_xts_config
FindXtsConfig ==
    /\ searched' = TRUE
    /\ \E files \in Listings({n \in CwdNames : Exists(fs, n)}) :
         LET xts_configs == SelectSeq(files, ReSearchXts)
         IN  IF Len(xts_configs) > 1
             THEN LET u == UserSelectConfig(xts_configs)
                  IN  /\ stdout' = stdout \o u.lines
                      /\ Terminate(u.status, u.message)
                      /\ UNCHANGED <<xts_config, loaded>>
             ELSE IF Len(xts_configs) < 1
                  THEN LET e == Error("no config found")
                       IN  /\ Terminate(e.status, e.message)
                           /\ UNCHANGED <<xts_config, loaded, stdout>>
                  ELSE LET r == XtsConfigSetter(fs, xts_configs[1])
                       IN  IF r.kind = "exit"
                           THEN /\ Terminate(r.status, r.message)
                                /\ UNCHANGED <<xts_config, loaded, stdout>>
                           ELSE /\ xts_config' = r.value
                                /\ loaded' = Append(loaded, xts_configs[1])
                                /\ pc' = "new_subparser"
                                /\ UNCHANGED <<stdout, exit_code, message>>

\* lines 114-115: search the working directory when no configuration is set
LocateConfig ==
    /\ pc = "locate"
    /\ IF IsNone(xts_config)
       THEN FindXtsConfig
       ELSE /\ pc' = "new_subparser"
            /\ UNCHANGED <<xts_config, searched, loaded, stdout, exit_code, message>>
    /\ UNCHANGED <<cmdline, sys_argv, fs, used_args, parser, parsed_args, remaining,
                   config, plugin_calls, runner_calls>>

\* lines 116-129: the parser whose COMMAND choices are the document's keys
NewSubparser ==
    /\ pc = "new_subparser"
    /\ IF IsDict(xts_config)
       THEN /\ parser' = [built |-> TRUE, choices |-> DOMAIN xts_config.val]
            /\ pc' = "parse_known_args"
            /\ UNCHANGED <<exit_code, message>>
       ELSE /\ Terminate(1, "AttributeError: keys")
            /\ UNCHANGED parser
    /\ UNCHANGED <<cmdline, sys_argv, fs, xts_config, used_args, searched, loaded,
                   parsed_args, remaining, config, plugin_calls, runner_calls,
                   stdout>>

\* line 130: parse the command line against the choices
ParseCommand ==
    /\ pc = "parse_known_args"
    /\ LET r == ParseKnownArgs(Tail(sys_argv), parser.choices)
       IN  IF r.status # Running
           THEN /\ Terminate(r.status, r.message)
                /\ parsed_args' = r.args
                /\ UNCHANGED remaining
           ELSE /\ parsed_args' = r.args
                /\ remaining' = r.extras
                /\ pc' = "narrow"
                /\ UNCHANGED <<exit_code, message>>
    /\ UNCHANGED <<cmdline, sys_argv, fs, xts_config, used_args, searched, loaded,
                   parser, config, plugin_calls, runner_calls, stdout>>

\* line 131: the configuration narrowed to the chosen command
NarrowConfig ==
    /\ pc = "narrow"
    /\ config' = PyDict(PyStr(parsed_args.command)
                          :> DictGet(xts_config, PyStr(parsed_args.command)))
    /\ pc' = "run_plugins"
    /\ UNCHANGED <<cmdline, sys_argv, fs, xts_config, used_args, searched, loaded,
                   parser, parsed_args, remaining, plugin_calls, runner_calls,
                   stdout, exit_code, message>>

\* lines 133, 180-191: _run_plugins(command), which does nothing and returns
RunPlugins ==
    /\ pc = "run_plugins"
    /\ plugin_calls' = Append(plugin_calls, parsed_args.command)
    /\ pc' = "adjust"
    /\ UNCHANGED <<cmdline, sys_argv, fs, xts_config, used_args, searched, loaded,
                   parser, parsed_args, remaining, config, runner_calls,
                   stdout, exit_code, message>>

\* lines 135-140 with the command appended whatever the CommandSpec holds
AdjustedRemaining_AlwaysAppend(rem, args, spec) ==
    LET withHelp == IF args.help THEN Append(rem, "--help") ELSE rem
    IN  Append(withHelp, args.command)

\* the list remaining after lines 135-140, for a CommandSpec that is a dict
AdjustedRemaining(rem, args, spec) ==
    LET withHelp == IF args.help THEN Append(rem, "--help") ELSE rem
    IN  IF Truthy(DictGet(spec, PyStr("command")))
        THEN Append(withHelp, args.command)
        ELSE withHelp

\* lines 134-141: --help and the command of a Leaf go back on the list
AdjustRemaining ==
    /\ pc = "adjust"
    /\ used_args' = Append(used_args, parsed_args.command)
    /\ LET spec == config.val[PyStr(parsed_args.command)]
       IN  IF IsDict(spec)
           THEN /\ remaining' = AdjustedRemaining(remaining, parsed_args, spec)
                /\ pc' = "run"
                /\ UNCHANGED <<exit_code, message>>
           ELSE /\ remaining' = IF parsed_args.help
                                THEN Append(remaining, "--help")
                                ELSE remaining
                /\ Terminate(1, "AttributeError: get")
    /\ UNCHANGED <<cmdline, sys_argv, fs, xts_config, searched, loaded, parser,
                   parsed_args, config, plugin_calls, runner_calls, stdout>>

\* line 203: hand the narrowed configuration and the list to YamlRunner.run
Run ==
    /\ pc = "run"
    /\ runner_calls' = Append(runner_calls, [config |-> config, args |-> remaining])
    /\ pc' = "done"
    /\ exit_code' = 0
    /\ UNCHANGED <<cmdline, sys_argv, fs, xts_config, used_args, searched, loaded,
                   parser, parsed_args, remaining, config, plugin_calls,
                   stdout, message>>

Next ==
    \/ ExplicitConfig
    \/ LocateConfig
    \/ NewSubparser
    \/ ParseCommand
    \/ NarrowConfig
    \/ RunPlugins
    \/ AdjustRemaining
    \/ Run

Spec == Init /\ [][Next]_vars

(***************************************************************************)
(* Vocabulary of the properties.                                           *)
(***************************************************************************)
\* the process was started with a first argument that matches the
\* configuration regex
ExplicitNamed == Len(cmdline) > 1 /\ ReSearchXts(cmdline[2])

\* the names in the working directory that match the configuration regex
Candidates == {n \in CwdNames : Exists(fs, n) /\ ReSearchXts(n)}

Ended == pc \in {"exited", "done"}

\* the CommandSpec selected, once the configuration has been narrowed
Selected == config.val[PyStr(parsed_args.command)]

Narrowed == IsDict(config)

IsLeaf(spec) == IsDict(spec) /\ PyStr("command") \in DOMAIN spec.val

IsSection(spec) == IsDict(spec) /\ PyStr("command") \notin DOMAIN spec.val

Elems(q) == {q[i] : i \in 1..Len(q)}

Count(q, x) == Cardinality({i \in 1..Len(q) : q[i] = x})

\* the first positional argument of the command line the parser sees
Positionals == {i \in 1..Len(Tail(sys_argv)) : ~IsOption(Tail(sys_argv)[i])}

FirstPositional == Tail(sys_argv)[CHOOSE i \in Positionals : \A j \in Positionals : i <= j]

\* the parser accepts the name c as COMMAND
Accepts(c) == ParseKnownArgs(<<c>>, parser.choices).status = Running

(***************************************************************************)
(* C1: for every loaded document D and every first positional argument c   *)
(* that is not a key of D, the process ends with exit status 1 and         *)
(* YamlRunner.run is never called.                                         *)
(***************************************************************************)
C1_UnknownCommandExitsOne ==
    (/\ Ended
     /\ parser.built
     /\ Positionals # {}
     /\ PyStr(FirstPositional) \notin DOMAIN xts_config.val)
    => (exit_code = 1 /\ runner_calls = <<>>)

(***************************************************************************)
(* C2: for every loaded document D the names the parser accepts are        *)
(* exactly the keys of D, and the configuration handed to the runner is    *)
(* the single entry of the accepted command.                               *)
(***************************************************************************)
C2_AcceptedIsKeys ==
    /\ parser.built =>
         {PyStr(c) : c \in {t \in Tokens : Accepts(t)}} = DOMAIN xts_config.val
    /\ runner_calls # <<>> =>
         LET k == PyStr(parsed_args.command)
         IN  /\ k \in DOMAIN xts_config.val
             /\ DOMAIN runner_calls[1].config.val = {k}
             /\ runner_calls[1].config.val[k] = xts_config.val[k]

(***************************************************************************)
(* C3: whenever the selected CommandSpec has a command key, whatever its   *)
(* value, the list passed to the runner contains the selected command.     *)
(***************************************************************************)
C3_LeafNameKept ==
    /\ (pc = "run" /\ IsLeaf(Selected)) => parsed_args.command \in Elems(remaining)
    /\ (runner_calls # <<>> /\ IsLeaf(Selected)) =>
         parsed_args.command \in Elems(runner_calls[1].args)

(***************************************************************************)
(* C4: whenever the selected CommandSpec is a mapping with no command key, *)
(* the list passed to the runner is the arguments the parser left          *)
(* unconsumed, then --help if help was asked for; the command name has no  *)
(* added occurrence in it.                                                 *)
(***************************************************************************)
C4_SectionNotReappended ==
    (runner_calls # <<>> /\ IsSection(Selected)) =>
        LET given == Tail(sys_argv)
            left == ParseKnownArgs(given, parser.choices).extras
            args == runner_calls[1].args
        IN  /\ args = left \o (IF parsed_args.help THEN <<"--help">> ELSE <<>>)
            /\ Count(args, parsed_args.command) = Count(given, parsed_args.command) - 1

C4_Witness ==
    /\ pc = "done"
    /\ IsSection(Selected)
    /\ parsed_args.help
    /\ runner_calls[1].args = <<"--help">>

(***************************************************************************)
(* C5: with no explicit configuration path and two or more matching files  *)
(* in the working directory, the process ends with exit status 2, prints   *)
(* one hint per candidate, and no candidate is loaded: no configuration is *)
(* set, no command is parsed and the runner is not called.                 *)
(***************************************************************************)
C5_AmbiguousExitsTwo ==
    (~ExplicitNamed /\ Cardinality(Candidates) >= 2) =>
        /\ pc \in {"first_arg", "locate", "exited"}
        /\ loaded = <<>>
        /\ IsNone(xts_config)
        /\ ~parser.built
        /\ plugin_calls = <<>>
        /\ runner_calls = <<>>
        /\ pc = "exited" =>
             /\ exit_code = 2
             /\ Len(stdout) = Cardinality(Candidates)
             /\ \A n \in Candidates : Count(stdout, <<"xts", n, "...">>) = 1

C5_Witness ==
    /\ ~ExplicitNamed
    /\ Candidates = {"a.xts", "b.xts"}
    /\ pc = "exited"
    /\ Len(stdout) = 2

(***************************************************************************)
(* C6: when the first argument matches the configuration regex and names a *)
(* path that does not exist, the process ends with exit status 1 through   *)
(* the 'does not exist' error whatever the working directory holds: the    *)
(* directory is not searched, no hint is printed, exit status 2 never      *)
(* results.                                                                *)
(***************************************************************************)
C6_MissingExplicitExitsOne ==
    (ExplicitNamed /\ ~Exists(fs, cmdline[2])) =>
        /\ pc \in {"first_arg", "exited"}
        /\ ~searched
        /\ stdout = <<>>
        /\ loaded = <<>>
        /\ exit_code # 2
        /\ pc = "exited" =>
             /\ exit_code = 1
             /\ message = "xts config specified does not exist"

C6_Witness ==
    /\ ExplicitNamed
    /\ ~Exists(fs, cmdline[2])
    /\ Cardinality(Candidates) = 2
    /\ pc = "exited"
    /\ exit_code = 1

(***************************************************************************)
(* C7: with no explicit configuration path and no matching file in the     *)
(* working directory, the process ends with exit status 1 ('no config      *)
(* found') before the command grammar is built, and the runner is never    *)
(* called.                                                                 *)
(***************************************************************************)
C7_NoConfigExitsOne ==
    (~ExplicitNamed /\ Candidates = {}) =>
        /\ pc \in {"first_arg", "locate", "exited"}
        /\ ~parser.built
        /\ loaded = <<>>
        /\ runner_calls = <<>>
        /\ pc = "exited" =>
             /\ exit_code = 1
             /\ message = "no config found"

C7_Witness ==
    /\ ~ExplicitNamed
    /\ Candidates = {}
    /\ Exists(fs, "notes.txt")
    /\ Len(cmdline) > 1
    /\ pc = "exited"
    /\ exit_code = 1

(***************************************************************************)
(* C8: when the first argument matches the configuration regex, the        *)
(* working directory is never searched in that invocation, whatever the    *)
(* named file holds: commands are resolved against the document of that    *)
(* file or the process ends.                                               *)
(***************************************************************************)
C8_ExplicitNeverSearches ==
    ExplicitNamed =>
        /\ ~searched
        /\ \A i \in 1..Len(loaded) : loaded[i] = cmdline[2]

(***************************************************************************)
(* C9: for every path the setter is applied to, either the load fully      *)
(* succeeds (the content is a mapping) and the active document is that     *)
(* content, or the process ends before the command grammar is built,       *)
(* before a command is resolved and before the runner is called; after a   *)
(* PermissionError or a missing path the exit status is 1 and no document  *)
(* is set.                                                                 *)
(***************************************************************************)
C9_LoadAllOrNothing ==
    /\ (parser.built \/ Narrowed \/ runner_calls # <<>>) =>
         \A i \in 1..Len(loaded) :
            /\ fs[loaded[i]] \in {"main", "alt"}
            /\ xts_config = ConstructNode(FileYaml(fs[loaded[i]]))
    /\ message \in {"Could not read xts config",
                    "xts config specified does not exist"} =>
         /\ exit_code = 1
         /\ IsNone(xts_config)

(***************************************************************************)
(* C10: an invocation that reaches the runner has called _run_plugins      *)
(* exactly once, with the validated command, after the command was         *)
(* accepted and before the remaining arguments are adjusted; an invocation *)
(* that ends in a configuration or usage error has called it zero times;   *)
(* the hook returns control to the normal flow.                            *)
(***************************************************************************)
C10_HookOnceBeforeRunner ==
    /\ runner_calls # <<>> => plugin_calls = <<parsed_args.command>>
    /\ pc = "run_plugins" =>
         /\ plugin_calls = <<>>
         /\ PyStr(parsed_args.command) \in DOMAIN xts_config.val
    /\ pc = "adjust" =>
         /\ plugin_calls = <<parsed_args.command>>
         /\ remaining = ParseKnownArgs(Tail(sys_argv), parser.choices).extras
    /\ pc = "exited" => plugin_calls = <<>>

====
